---- MODULE Spec2Model ----
(***************************************************************************)
(* The include directive of liquid-rust (src/tags/include_tag.rs):         *)
(* include_tag, parse_partial and Include::render_to, as a state machine   *)
(* over an explicit call stack.  The collaborators the file calls into     *)
(* (the Include Source, tokenize, parse, Template::render_to, trace_with,  *)
(* unexpected_token_error) are modelled from their interface.              *)
(***************************************************************************)
EXTENDS Integers, Sequences, FiniteSets, TLC

\* ------------------------------------------------------------------ bounds

\* Total number of pieces of raw text held by the Include Source.
MaxSize == 2
\* Call-stack capacity, in frames; a call beyond it exhausts the stack.
MaxDepth == 11
\* Renders of one compiled template.
MaxRenders == 2
\* Top-level compilations in one run.
MaxJobs == 2
\* Changes of the Include Source's content in one run.
MaxChanges == 1
\* Pieces of raw text the Include Source holds at first when its content may change.
EnvSize == 1

\* ------------------------------------------------------------------- data

Names == {"a", "b"}

\* Raw argument text of an include directive: 'a' (quoted), a (bare),
\* 1 (a number), or nothing at all.
RawArg(q, s) == [q |-> q, s |-> s]
RawNames == {RawArg(q, s) : q \in BOOLEAN, s \in Names}
RawArgs == RawNames \cup {RawArg(FALSE, "1"), RawArg(FALSE, "")}

\* A piece of raw template text.
Piece(k, arg) == [k |-> k, arg |-> arg]
NoArg == RawArg(FALSE, "")
PlainKinds == {"out", "assign", "fail", "lexbad", "synbad"}
PlainPieces == {Piece(k, NoArg) : k \in PlainKinds}
IncludePiece(arg) == Piece("include", arg)
\* Inside partials: {% include 'a' %}, {% include b %}, {% include 1 %}.
PartialPieces ==
    PlainPieces \cup {IncludePiece(RawArg(TRUE, "a")), IncludePiece(RawArg(FALSE, "b")),
                      IncludePiece(RawArg(FALSE, "1"))}

Texts(n) == UNION {[1..m -> PartialPieces] : m \in 0..n}

\* What the Include Source holds for a name.
Found(text) == [found |-> TRUE, text |-> text]
Missing == [found |-> FALSE, text |-> <<>>]
Entries(n) == {Missing} \cup {Found(t) : t \in Texts(n)}

SizeOf(src) == Len(src["a"].text) + Len(src["b"].text)
Sources(n) == {s \in [Names -> Entries(n)] : SizeOf(s) <= n}

\* Tokens of compiler::Token that the directive's arguments can be.
Token(type, val) == [type |-> type, val |-> val]

\* liquid_error::Error: a kind, a message, and the trace of annotations.
Error(kind, msg, expected, got) ==
    [kind |-> kind, msg |-> msg, expected |-> expected, got |-> got, trace |-> <<>>]

Ok(v) == [ok |-> TRUE, val |-> v, err |-> <<>>]
Err(e) == [ok |-> FALSE, val |-> <<>>, err |-> <<e>>]

\* The annotation format!("{{% include {} %}}", name).
Annotation(name) == <<"{% include ", name, " %}">>

\* ResultLiquidExt::trace_with: an Ok passes; an Err gets the annotation appended.
TraceWith(r, note) ==
    IF r.ok THEN r
    ELSE [r EXCEPT !.err = <<[r.err[1] EXCEPT !.trace = Append(@, note)]>>]

\* compiler::unexpected_token_error(expected, actual).
UnexpectedTokenError(expected, arg) ==
    Error("UnexpectedToken", "expected", expected, arg)

\* IncludeSource::include(name): the text, or the not-found condition.
NotFoundError == Error("NotFound", "Snippet does not exist", "", <<>>)

\* -------------------------------------------------------------- the state

VARIABLES
    source,     \* the Include Source: what it holds for each name
    stack,      \* the call stack of the compilation in progress
    ret,        \* the value the last finished call returned, if not yet consumed
    phase,      \* "idle", "compiling", "done" or "crashed" (stack exhausted)
    job,        \* the raw text of the top-level template being compiled
    prev,       \* the finished compilations before this one
    log,        \* the calls this compilation made to the Include Source
    origin,     \* where this compilation's failure arose, if it failed
    rendered,   \* the last render of the compiled template
    renders,    \* how many renders it has had
    changes     \* how many times the Include Source's content has changed

vars == <<source, stack, ret, phase, job, prev, log, origin, rendered, renders, changes>>

\* ------------------------------------------------------------ the tokenizer

\* The arguments of a tag: a quoted string loses its quotes and becomes a
\* StringLiteral, a bare word an Identifier, a number a NumberLiteral.
TokenizeArg(arg) ==
    IF arg.s = "" THEN <<>>
    ELSE IF arg.q THEN <<Token("StringLiteral", arg.s)>>
    ELSE IF arg.s = "1" THEN <<Token("NumberLiteral", arg.s)>>
    ELSE <<Token("Identifier", arg.s)>>

Element(k, args) == [k |-> k, args |-> args]

\* compiler::tokenize: the whole text, or the lexical error of its first bad piece.
Tokenize(text) ==
    IF \E i \in 1..Len(text) : text[i].k = "lexbad"
    THEN Err(Error("Lexical", "lexical error", "", <<>>))
    ELSE Ok([i \in 1..Len(text) |-> Element(text[i].k, TokenizeArg(text[i].arg))])

\* ---------------------------------------------------------------- rendering

\* What the Include Source holds for a name, and the record of a call to it.
EntryOf(name) == IF name \in Names THEN source[name] ELSE Missing
Event(name, entry) == [name |-> name, found |-> entry.found, text |-> entry.text]

Node(k, name, partial) == [k |-> k, name |-> name, partial |-> partial]
PlainNode(k) == Node(k, "", <<>>)

\* struct Include { name, partial }.
Include(name, partial) == Node("include", name, partial)

\* The sink, the context, the failure if any, and the calls made to the
\* Include Source while rendering.
RenderState(out, num) == [out |-> out, num |-> num, err |-> <<>>, reads |-> <<>>]

RenderError == Error("Render", "render error", "", <<>>)

\* The render of a node that is no include: {{ num }}, {% assign num = 7 %},
\* and an expression whose evaluation fails.
RenderPlain(node, st) ==
    CASE node.k = "out" -> [st EXCEPT !.out = Append(@, st.num)]
      [] node.k = "assign" -> [st EXCEPT !.num = 7]
      [] OTHER -> [st EXCEPT !.err = <<RenderError>>]

RECURSIVE TemplateRenderTo(_, _)
RECURSIVE RenderNode(_, _)

\* A scoped copy: the partial renders into the caller's sink with a context of
\* its own, and the caller's context comes back unchanged.
IncludeRenderToScoped(self, st) ==
    LET r == TemplateRenderTo(self.partial, st)
    IN  IF r.err # <<>>
        THEN [r EXCEPT !.err = <<[r.err[1] EXCEPT !.trace = Append(@, Annotation(self.name))]>>]
        ELSE [r EXCEPT !.num = st.num]

\* The partial's failure passes with no annotation of this include.
IncludeRenderToBare(self, st) == TemplateRenderTo(self.partial, st)

\* The partial is resolved again when rendered: the Include Source is asked.
IncludeRenderToLazy(self, st) ==
    LET r == TemplateRenderTo(self.partial, st)
        s == [r EXCEPT !.reads = Append(@, Event(self.name, EntryOf(self.name)))]
    IN  IF s.err # <<>>
        THEN [s EXCEPT !.err = <<[s.err[1] EXCEPT !.trace = Append(@, Annotation(self.name))]>>]
        ELSE s

\* Include::render_to: the partial renders into the same sink and context;
\* its failure is re-raised with this include's annotation.
IncludeRenderTo(self, st) ==
    LET r == TemplateRenderTo(self.partial, st)
    IN  IF r.err # <<>>
        THEN [r EXCEPT !.err = <<[r.err[1] EXCEPT !.trace = Append(@, Annotation(self.name))]>>]
        ELSE r

RenderNode(node, st) ==
    IF node.k = "include" THEN IncludeRenderTo(node, st) ELSE RenderPlain(node, st)

\* Template::render_to: each node in order, stopping at the first failure.
TemplateRenderTo(nodes, st) ==
    IF nodes = <<>> THEN st
    ELSE LET r == RenderNode(Head(nodes), st)
         IN  IF r.err # <<>> THEN r ELSE TemplateRenderTo(Tail(nodes), r)

\* ------------------------------------------------------------ the call stack

Frame(fn, pc, args, name, tokens, i, nodes) ==
    [fn |-> fn, pc |-> pc, args |-> args, name |-> name,
     tokens |-> tokens, i |-> i, nodes |-> nodes]

ParseFrame(tokens) == Frame("parse", "loop", <<>>, "", tokens, 1, <<>>)
IncludeTagFrame(args) == Frame("include_tag", "start", args, "", <<>>, 0, <<>>)
ParsePartialFrame(name) == Frame("parse_partial", "start", <<>>, name, <<>>, 0, <<>>)

Top == stack[Len(stack)]
Pop(stk) == SubSeq(stk, 1, Len(stk) - 1)
SetTop(stk, f) == [stk EXCEPT ![Len(stk)] = f]

\* The names of the include directives whose partial is being compiled,
\* outermost first.
RECURSIVE EnclosingNames(_)
EnclosingNames(stk) ==
    IF stk = <<>> THEN <<>>
    ELSE LET f == Head(stk)
         IN  (IF f.fn = "include_tag" /\ f.pc = "partial" THEN <<f.name>> ELSE <<>>)
             \o EnclosingNames(Tail(stk))

NoOrigin == [cause |-> "none", path |-> <<>>]
Origin(cause) == [cause |-> cause, path |-> EnclosingNames(stack)]

\* A call returns: its frame goes, its value waits for the caller.
Return(r) ==
    /\ stack' = Pop(stack)
    /\ ret' = <<r>>
    /\ phase' = IF Len(stack) = 1 THEN "done" ELSE phase

\* A call is made: a frame beyond the stack's capacity exhausts it.
Call(stk) ==
    IF Len(stk) > MaxDepth
    THEN /\ phase' = "crashed"
         /\ UNCHANGED <<stack, ret>>
    ELSE /\ stack' = stk
         /\ ret' = <<>>
         /\ UNCHANGED phase

\* ---------------------------------------------------------- the Include Source

\* options.include_source.include(name).
IncludeSourceInclude(name) ==
    IF name \in Names /\ source[name].found THEN Ok(source[name].text) ELSE Err(NotFoundError)

\* ------------------------------------------------------------- include_tag.rs

\* Any first token is taken as the name.
IncludeTagNameAny(args) ==
    IF args # <<>> THEN Ok(Head(args).val) ELSE Ok("")

\* Only a string literal is taken as the name.
IncludeTagNameStrict(args) ==
    IF args # <<>> /\ Head(args).type = "StringLiteral"
    THEN Ok(Head(args).val)
    ELSE Err(UnexpectedTokenError("string", IF args = <<>> THEN <<>> ELSE <<Head(args)>>))

\* include_tag, lines 41-47: the name is the first argument, a string literal
\* or an identifier; anything else is the unexpected-token error.
IncludeTagName(args) ==
    IF args # <<>> /\ Head(args).type \in {"StringLiteral", "Identifier"}
    THEN Ok(Head(args).val)
    ELSE Err(UnexpectedTokenError("string", IF args = <<>> THEN <<>> ELSE <<Head(args)>>))

\* A lexical error of the partial is swallowed: the partial compiles as empty.
ParsePartialHeadLenient(name) ==
    LET content == IncludeSourceInclude(name)
        tokens == IF content.ok THEN Tokenize(content.val) ELSE content
    IN  [res |-> IF content.ok /\ ~tokens.ok THEN Ok(<<>>) ELSE tokens,
         cause |-> IF content.ok THEN "tokenize" ELSE "lookup",
         calls |-> <<Event(name, EntryOf(name))>>]

\* A partial that is not found compiles as empty.
ParsePartialHeadDefault(name) ==
    LET content == IncludeSourceInclude(name)
    IN  [res |-> IF content.ok THEN Tokenize(content.val) ELSE Ok(<<>>),
         cause |-> "tokenize",
         calls |-> <<Event(name, EntryOf(name))>>]

\* A name found before in this compilation is not looked up again: the text
\* of the first lookup is compiled.
ParsePartialHeadCached(name) ==
    LET hits == SelectSeq(log, LAMBDA e : e.name = name /\ e.found)
        content == IncludeSourceInclude(name)
    IN  IF hits # <<>>
        THEN [res |-> Tokenize(hits[1].text), cause |-> "tokenize", calls |-> <<>>]
        ELSE [res |-> IF content.ok THEN Tokenize(content.val) ELSE content,
              cause |-> IF content.ok THEN "tokenize" ELSE "lookup",
              calls |-> <<Event(name, EntryOf(name))>>]

\* A partial already being compiled is refused instead of compiled again.
ParsePartialHeadGuarded(name) ==
    LET content == IncludeSourceInclude(name)
        open == SelectSeq(stack, LAMBDA f : f.fn = "parse_partial" /\ f.name = name)
    IN  IF Len(open) > 1
        THEN [res |-> Err(Error("Syntax", "include cycle", "", <<>>)),
              cause |-> "parse", calls |-> <<>>]
        ELSE [res |-> IF content.ok THEN Tokenize(content.val) ELSE content,
              cause |-> IF content.ok THEN "tokenize" ELSE "lookup",
              calls |-> <<Event(name, EntryOf(name))>>]

\* parse_partial, lines 30-32: the lookup, then the tokenizer; either failure
\* is returned as it is.  calls: what was asked of the Include Source.
ParsePartialHead(name) ==
    LET content == IncludeSourceInclude(name)
    IN  [res |-> IF content.ok THEN Tokenize(content.val) ELSE content,
         cause |-> IF content.ok THEN "tokenize" ELSE "lookup",
         calls |-> <<Event(name, EntryOf(name))>>]

\* parse_partial, line 33: parse(..).map(Template::new).
ParsePartialResult(r) == IF r.ok THEN Ok(r.val) ELSE r

\* The failure of the partial passes with no annotation.
IncludeTagResultBare(name, r) ==
    IF r.ok THEN Ok(<<Include(name, r.val)>>) ELSE r

\* include_tag, lines 49-55: the failure gets this directive's annotation; the
\* compiled partial becomes the Include node, boxed (here a one-node list).
IncludeTagResult(name, r) ==
    LET partial == TraceWith(r, Annotation(name))
    IN  IF partial.ok THEN Ok(<<Include(name, partial.val)>>) ELSE partial

\* ------------------------------------------------------------------ actions

Directives == {<<IncludePiece(arg)>> : arg \in RawArgs}
Quoted(s) == <<IncludePiece(RawArg(TRUE, s))>>
Bare(s) == <<IncludePiece(RawArg(FALSE, s))>>
OutPiece == Piece("out", NoArg)
TopTexts ==
    Directives \cup {Quoted("a") \o <<OutPiece>>, Quoted("a") \o Bare("a")}

\* After a directive has been compiled: the same directive in the other
\* argument form, and the partial's own text compiled standalone.
Forms(s) == {Quoted(s), Bare(s)}
Related(text) ==
    UNION {(Forms(s) \ {text}) \cup (IF source[s].found THEN {source[s].text} ELSE {})
           : s \in {n \in Names : text \in Forms(n)}}

Finished == [text |-> job, res |-> ret[1], log |-> log]

\* compiler::tokenize then compiler::parse of a top-level template, as the
\* tests of include_tag.rs do.
Begin(text) ==
    /\ job' = text
    /\ LET t == Tokenize(text)
       IN  IF t.ok
           THEN /\ stack' = <<ParseFrame(t.val)>>
                /\ ret' = <<>>
                /\ phase' = "compiling"
                /\ origin' = NoOrigin
           ELSE /\ stack' = <<>>
                /\ ret' = <<t>>
                /\ phase' = "done"
                /\ origin' = [cause |-> "tokenize", path |-> <<>>]
    /\ log' = <<>>
    /\ rendered' = <<>>
    /\ renders' = 0
    /\ UNCHANGED <<source, changes>>

\* The first top-level compilation.
Start ==
    /\ phase = "idle"
    /\ \E text \in TopTexts : Begin(text)
    /\ UNCHANGED prev

\* A further top-level compilation, of a text related to the last one.
Restart ==
    /\ phase = "done"
    /\ Len(prev) + 1 < MaxJobs
    /\ \E text \in Related(job) : Begin(text)
    /\ prev' = Append(prev, Finished)

\* compiler::parse, one element: a plain element becomes a node, a bad one is
\* the syntax error, an include tag calls include_tag with its arguments; at
\* the end the nodes are returned.
ParseStep ==
    /\ phase = "compiling" /\ ret = <<>> /\ Top.fn = "parse"
    /\ IF Top.i > Len(Top.tokens)
       THEN Return(Ok(Top.nodes)) /\ UNCHANGED origin
       ELSE LET el == Top.tokens[Top.i]
            IN  CASE el.k = "synbad" ->
                       /\ Return(Err(Error("Syntax", "syntax error", "", <<>>)))
                       /\ origin' = Origin("parse")
                  [] el.k = "include" ->
                       /\ Call(Append(stack, IncludeTagFrame(el.args)))
                       /\ UNCHANGED origin
                  [] OTHER ->
                       /\ stack' = SetTop(stack, [Top EXCEPT !.nodes = Append(@, PlainNode(el.k)),
                                                              !.i = @ + 1])
                       /\ UNCHANGED <<ret, phase, origin>>
    /\ UNCHANGED <<source, job, prev, log, rendered, renders, changes>>

\* compiler::parse, on the return of the tag's parser: the node is kept, or
\* the failure ends the parse.
ParseResume ==
    /\ phase = "compiling" /\ ret # <<>> /\ Top.fn = "parse"
    /\ IF ret[1].ok
       THEN /\ stack' = SetTop(stack, [Top EXCEPT !.nodes = @ \o ret[1].val,
                                                   !.i = @ + 1])
            /\ ret' = <<>>
            /\ UNCHANGED phase
       ELSE Return(ret[1])
    /\ UNCHANGED <<source, job, prev, log, origin, rendered, renders, changes>>

\* include_tag up to its call of parse_partial.
IncludeTagEnter ==
    /\ phase = "compiling" /\ ret = <<>> /\ Top.fn = "include_tag" /\ Top.pc = "start"
    /\ LET name == IncludeTagName(Top.args)
       IN  IF name.ok
           THEN /\ Call(Append(SetTop(stack, [Top EXCEPT !.pc = "partial", !.name = name.val]),
                               ParsePartialFrame(name.val)))
                /\ UNCHANGED origin
           ELSE /\ Return(name)
                /\ origin' = Origin("args")
    /\ UNCHANGED <<source, job, prev, log, rendered, renders, changes>>

\* parse_partial up to its call of parse.
ParsePartialEnter ==
    /\ phase = "compiling" /\ ret = <<>> /\ Top.fn = "parse_partial" /\ Top.pc = "start"
    /\ LET head == ParsePartialHead(Top.name)
       IN  /\ log' = log \o head.calls
           /\ IF head.res.ok
              THEN /\ Call(Append(SetTop(stack, [Top EXCEPT !.pc = "parse"]),
                                  ParseFrame(head.res.val)))
                   /\ UNCHANGED origin
              ELSE /\ Return(head.res)
                   /\ origin' = Origin(head.cause)
    /\ UNCHANGED <<source, job, prev, rendered, renders, changes>>

\* parse_partial on the return of parse.
ParsePartialReturn ==
    /\ phase = "compiling" /\ ret # <<>> /\ Top.fn = "parse_partial"
    /\ Return(ParsePartialResult(ret[1]))
    /\ UNCHANGED <<source, job, prev, log, origin, rendered, renders, changes>>

\* include_tag on the return of parse_partial.
IncludeTagReturn ==
    /\ phase = "compiling" /\ ret # <<>> /\ Top.fn = "include_tag"
    /\ Return(IncludeTagResult(Top.name, ret[1]))
    /\ UNCHANGED <<source, job, prev, log, origin, rendered, renders, changes>>

StartNums == {5, 10}

\* Template::render of the compiled template, from a fresh sink.
Render ==
    /\ phase = "done" /\ ret[1].ok
    /\ renders < MaxRenders
    /\ \E num \in StartNums :
          rendered' = <<[num |-> num, res |-> TemplateRenderTo(ret[1].val, RenderState(<<>>, num))]>>
    /\ renders' = renders + 1
    /\ log' = log \o rendered'[1].res.reads
    /\ UNCHANGED <<source, stack, ret, phase, job, prev, origin, changes>>

\* What a partial's content may change to: removed, emptied, rewritten.
Edits == {Missing, Found(<<>>), Found(<<OutPiece>>), Found(<<Piece("assign", NoArg)>>)}

\* The content behind the Include Source changes (a file is edited, removed).
SourceChange ==
    /\ changes < MaxChanges
    /\ phase # "crashed"
    /\ \E n \in Names, e \in Edits :
          /\ e # source[n]
          /\ source' = [source EXCEPT ![n] = e]
    /\ changes' = changes + 1
    /\ UNCHANGED <<stack, ret, phase, job, prev, log, origin, rendered, renders>>

Init ==
    /\ source \in Sources(MaxSize)
    /\ stack = <<>>
    /\ ret = <<>>
    /\ phase = "idle"
    /\ job = <<>>
    /\ prev = <<>>
    /\ log = <<>>
    /\ origin = NoOrigin
    /\ rendered = <<>>
    /\ renders = 0
    /\ changes = 0

Compile ==
    \/ ParseStep
    \/ ParseResume
    \/ IncludeTagEnter
    \/ ParsePartialEnter
    \/ ParsePartialReturn
    \/ IncludeTagReturn

InitEnv ==
    /\ Init
    /\ SizeOf(source) <= EnvSize

Next == Start \/ Restart \/ Compile \/ Render

\* The Include Source's content is fixed.
Spec == Init /\ [][Next]_vars

NextOnce == Start \/ Compile \/ Render

\* One top-level compilation, every call of which is eventually served: the
\* calls are synchronous, so a call that can proceed does.
SpecFair == Init /\ [][NextOnce]_vars /\ WF_vars(Compile)

NextEnv == Start \/ Compile \/ Render \/ SourceChange

\* The Include Source's content may change at any moment.
SpecEnv == InitEnv /\ [][NextEnv]_vars

\* ------------------------------------------------------ reference operators

Reverse(seq) == [i \in 1..Len(seq) |-> seq[Len(seq) + 1 - i]]
Annotations(names) == [i \in 1..Len(names) |-> Annotation(names[i])]

IsDone == phase = "done"
Failed == ret # <<>> /\ ~ret[1].ok
Failure == ret[1].err[1]
LastJob == prev[Len(prev)]

\* A text compiles when it has no lexically or syntactically bad piece and
\* every include in it names, quoted or bare, a partial that is found and
\* whose text compiles; depth bounds the nesting followed.
RECURSIVE TextCompiles(_, _)
TextCompiles(text, depth) ==
    \A i \in 1..Len(text) :
        /\ text[i].k \notin {"lexbad", "synbad"}
        /\ text[i].k = "include" =>
              /\ text[i].arg.s \in Names
              /\ depth > 0
              /\ source[text[i].arg.s].found
              /\ TextCompiles(source[text[i].arg.s].text, depth - 1)

\* The nodes with every include replaced by its partial's nodes, in place.
RECURSIVE Flatten(_)
Flatten(nodes) ==
    IF nodes = <<>> THEN <<>>
    ELSE (IF Head(nodes).k = "include" THEN Flatten(Head(nodes).partial) ELSE <<Head(nodes)>>)
         \o Flatten(Tail(nodes))

\* The render of include-free nodes on one sink and one context.
RECURSIVE RenderFlat(_, _)
RenderFlat(nodes, st) ==
    IF nodes = <<>> \/ st.err # <<>> THEN st
    ELSE RenderFlat(Tail(nodes), RenderPlain(Head(nodes), st))

\* The include names on the way to the first failing node, outermost first.
RECURSIVE FailPath(_)
FailPath(nodes) ==
    IF nodes = <<>> THEN [fails |-> FALSE, path |-> <<>>]
    ELSE LET n == Head(nodes)
             inner == FailPath(n.partial)
         IN  CASE n.k = "fail" -> [fails |-> TRUE, path |-> <<>>]
               [] n.k = "include" /\ inner.fails ->
                      [fails |-> TRUE, path |-> <<n.name>> \o inner.path]
               [] OTHER -> FailPath(Tail(nodes))

\* The include nodes of a tree, each before the includes of its partial.
RECURSIVE Includes(_)
Includes(nodes) ==
    IF nodes = <<>> THEN <<>>
    ELSE (IF Head(nodes).k = "include"
          THEN <<Head(nodes)>> \o Includes(Head(nodes).partial) ELSE <<>>)
         \o Includes(Tail(nodes))

\* The partial is the complete compilation of the text: node for piece.
Compiled(partial, text) ==
    /\ Len(partial) = Len(text)
    /\ \A j \in 1..Len(text) :
          /\ partial[j].k = text[j].k
          /\ text[j].k = "include" => partial[j].name = text[j].arg.s

\* Every node held anywhere in the state: in the frames, in the value returned.
HeldNodes ==
    LET inFrames == [i \in 1..Len(stack) |-> stack[i].nodes]
        held == IF ret = <<>> THEN <<>> ELSE ret[1].val
        RECURSIVE Concat(_)
        Concat(ss) == IF ss = <<>> THEN <<>> ELSE Head(ss) \o Concat(Tail(ss))
    IN  Concat(inFrames) \o held

PartialFrames == SelectSeq(stack, LAMBDA f : f.fn = "parse_partial")
\* A partial is being compiled inside its own compilation.
Repeats == \E i, j \in 1..Len(PartialFrames) : i < j /\ PartialFrames[i].name = PartialFrames[j].name

\* ------------------------------------------------------------------- claims

\* C1: compiling an include directive for a name succeeds exactly when the
\* partial's closure is found, tokenizes and parses, and exactly when the
\* compilation of the partial's raw text standalone, with the same
\* configuration, succeeds.
IncludeIffStandalone ==
    \A s \in Names :
        /\ IsDone /\ job \in Forms(s) =>
              (ret[1].ok <=> TextCompiles(job, Cardinality(Names)))
        /\ IsDone /\ prev # <<>> /\ LastJob.text \in Forms(s) /\ source[s].found
                  /\ job = source[s].text =>
              (LastJob.res.ok <=> ret[1].ok)

IncludeIffStandaloneWitness ==
    /\ IsDone /\ prev # <<>>
    /\ LastJob.text = Quoted("a") /\ source["a"].found /\ job = source["a"].text
    /\ \E i \in 1..Len(job) : job[i].k = "include"
    /\ LastJob.res.ok /\ ret[1].ok

\* C2: a directive whose partial the Include Source does not have fails with
\* the source's not-found condition, "Snippet does not exist", and that
\* condition arises from no lexical or syntax error of a partial that was found.
MissingIsNotFound ==
    /\ log # <<>> /\ ~log[Len(log)].found =>
          /\ Failed
          /\ Failure.kind = "NotFound"
          /\ Failure.msg = "Snippet does not exist"
    /\ Failed /\ Failure.kind = "NotFound" => log # <<>> /\ ~log[Len(log)].found
    /\ Failed /\ Failure.kind \in {"Lexical", "Syntax"} =>
          \A i \in 1..Len(log) : log[i].found
    /\ \A s \in Names :
          IsDone /\ job \in Forms(s) /\ ~source[s].found =>
              Failed /\ Failure.kind = "NotFound" /\ ret[1].val = <<>>

MissingIsNotFoundWitness ==
    /\ IsDone /\ job = Quoted("b") /\ ~source["b"].found
    /\ Failed /\ Failure.kind = "NotFound"

Malformed(args) == args = <<>> \/ Head(args).type \notin {"StringLiteral", "Identifier"}
AtDirective ==
    phase = "compiling" /\ ret = <<>> /\ Top.fn = "include_tag" /\ Top.pc = "start"
MalformedError(args) ==
    [kind |-> "UnexpectedToken", msg |-> "expected", expected |-> "string",
     got |-> IF args = <<>> THEN <<>> ELSE <<args[1]>>, trace |-> <<>>]

\* C3: a directive whose first argument is neither a string literal nor an
\* identifier, or that has no argument, returns the unexpected-token error
\* expecting "string" and naming the token, with no call to the Include
\* Source, no partial compiled and no trace annotation of that directive.
MalformedIsError ==
    /\ [](IsDone /\ job \in {Bare("1"), Bare("")} =>
             /\ Failed
             /\ Failure.kind = "UnexpectedToken" /\ Failure.expected = "string"
             /\ Failure.trace = <<>>
             /\ log = <<>>)
    /\ [][AtDirective /\ Malformed(Top.args) /\ stack' # stack =>
             /\ stack' = Pop(stack)
             /\ ret' = <<Err(MalformedError(Top.args))>>
             /\ log' = log]_vars

MalformedIsErrorWitness ==
    /\ IsDone /\ job = Bare("")
    /\ Failed /\ Failure.kind = "UnexpectedToken" /\ Failure.got = <<>>

\* C4: rendering an include is rendering its partial in place, on the
\* caller's sink and context: the partial reads what was set before it and
\* the includer reads after it what the partial wrote.
IncludeSharesContext ==
    rendered # <<>> =>
        LET res == rendered[1].res
            flat == RenderFlat(Flatten(ret[1].val), RenderState(<<>>, rendered[1].num))
        IN  /\ res.out = flat.out
            /\ res.num = flat.num
            /\ (res.err = <<>>) <=> (flat.err = <<>>)

IncludeSharesContextWitness ==
    /\ rendered # <<>> /\ rendered[1].num = 5
    /\ job = Quoted("a") \o <<OutPiece>>
    /\ Len(log) = 1 /\ log[1].text = <<OutPiece, Piece("assign", NoArg)>>
    /\ rendered[1].res.out = <<5, 7>>

\* C5: the directive with the string literal N and the one with the identifier
\* N make the same calls to the Include Source, have the same outcome, and
\* on success render the same from the same context.
EitherFormSame ==
    \A s \in Names :
        IsDone /\ prev # <<>> /\ LastJob.text \in Forms(s) /\ job \in Forms(s)
               /\ job # LastJob.text =>
            /\ ret[1] = LastJob.res
            /\ log = LastJob.log
            /\ \A num \in StartNums :
                  TemplateRenderTo(ret[1].val, RenderState(<<>>, num))
                      = TemplateRenderTo(LastJob.res.val, RenderState(<<>>, num))

EitherFormSameWitness ==
    /\ IsDone /\ prev # <<>>
    /\ LastJob.text = Quoted("a") /\ job = Bare("a")
    /\ ret[1].ok /\ Len(log) = 2

NamesOf(trace) == [i \in 1..Len(trace) |-> trace[i][2]]
IncludesName(text, name) ==
    \E i \in 1..Len(text) : text[i].k = "include" /\ text[i].arg.s = name

\* C6: a failure of resolution or compilation carries one annotation per
\* enclosing include directive, innermost first and outermost last, and the
\* annotated names are the chain of includes from the template to the failure.
CompileTraceChain ==
    /\ Failed =>
          Annotations(Reverse(origin.path))
              = Failure.trace \o Annotations(Reverse(EnclosingNames(stack)))
    /\ IsDone /\ Failed =>
          LET chain == Reverse(NamesOf(Failure.trace))
          IN  /\ Len(chain) = Len(origin.path)
              /\ \A i \in 1..Len(chain) :
                    /\ chain[i] \in Names
                    /\ IncludesName(IF i = 1 THEN job ELSE source[chain[i - 1]].text, chain[i])

CompileTraceChainWitness ==
    /\ IsDone /\ Failed /\ Failure.kind = "Lexical"
    /\ Failure.trace = <<Annotation("b"), Annotation("a")>>

\* C7: a render failure of the partial comes back as that failure with one
\* annotation per enclosing Include node, innermost first; a render that
\* succeeds comes back Ok with no annotation.
RenderTraceChain ==
    rendered # <<>> =>
        LET res == rendered[1].res
            first == FailPath(ret[1].val)
        IN  /\ (res.err = <<>>) <=> ~first.fails
            /\ first.fails =>
                  res.err = <<[RenderError EXCEPT !.trace = Annotations(Reverse(first.path))]>>

RenderTraceChainWitness ==
    /\ rendered # <<>> /\ rendered[1].res.err # <<>>
    /\ rendered[1].res.err[1].trace = <<Annotation("b"), Annotation("a")>>

\* C8: every include site compiled makes its own call to the Include Source
\* and compiles the text that call returned; a failed lookup is the last call.
EachSiteLooksUp ==
    /\ \A i \in 1..(Len(log) - 1) : log[i].found
    /\ IsDone /\ ret[1].ok =>
          LET sites == Includes(ret[1].val)
          IN  /\ Len(sites) = Len(log)
              /\ \A i \in 1..Len(sites) :
                    /\ sites[i].name = log[i].name
                    /\ log[i].found
                    /\ Compiled(sites[i].partial, log[i].text)

EachSiteLooksUpWitness ==
    /\ IsDone /\ ret[1].ok
    /\ job = Quoted("a") \o Bare("a")
    /\ Len(log) = 2 /\ log[1].text # log[2].text
    /\ ret[1].val[1].partial # ret[1].val[2].partial

\* C9: every Include node that exists holds the complete compilation of a text
\* the Include Source returned; once the template is compiled, rendering and
\* changes of the source leave the template and the calls made unchanged,
\* and what is rendered is what the compiled partials render.
ResolvedWhenCompiled ==
    /\ [](LET held == Includes(HeldNodes)
          IN  \A n \in 1..Len(held) :
                 \E i \in 1..Len(log) :
                    /\ log[i].found /\ log[i].name = held[n].name
                    /\ Compiled(held[n].partial, log[i].text))
    /\ [](rendered # <<>> =>
             rendered[1].res.out
                 = RenderFlat(Flatten(ret[1].val), RenderState(<<>>, rendered[1].num)).out)
    /\ [][IsDone => ret' = ret /\ log' = log /\ phase' = phase]_vars

ResolvedWhenCompiledWitness ==
    /\ renders = 2 /\ changes > 0
    /\ Len(log) > 0 /\ source[log[1].name] # Found(log[1].text)
    /\ rendered[1].res.out # <<>>

\* C10: a compilation ends with a result unless a partial is compiled inside
\* its own compilation; from then on no call on the cycle returns, the stack
\* grows until it is exhausted, and nothing but a cycle exhausts it.
NoCycleGuard ==
    /\ [](phase = "crashed" => Repeats)
    /\ [][Repeats => Repeats' /\ phase' # "done"]_vars
    /\ (phase = "compiling") ~> (phase \in {"done", "crashed"})
    /\ Repeats ~> (phase = "crashed")

NoCycleGuardWitness ==
    /\ phase = "crashed" /\ Repeats
    /\ job = Quoted("a") /\ log[Len(log)].name = "b"

====
